---- MODULE Spec2Model ----
(***************************************************************************)
(* ECG R-peak detection (Pan-Tompkins pipeline) of hpc-labo1:              *)
(* ecg_create / ecg_analyze / ecg_destroy and the filters of ecg_utils.    *)
(*                                                                         *)
(* Numbers.  The code computes in IEEE-754 doubles.  The signals of this   *)
(* model are whole multiples of one amplitude A = 1800 (= 60 * 30), held   *)
(* in units of A.  With windows of at most 5 samples every value the       *)
(* filters compute on such a signal is an integer, in double arithmetic    *)
(* as in the integers, when it is held in these units:                     *)
(*     high-pass and derivative   A / 60                                   *)
(*     squared                    (A / 60)^2                               *)
(*     integrated (mwi)           (A / 60)^2 / 60                          *)
(* A second kind of signal is the constant 0.1, whose running sums are not  *)
(* exact: they are rounded as the doubles are (Fl, Mean, below), and the   *)
(* high-pass output is then a small integer number of units 2^-56 / 60.    *)
(* The adaptive threshold state is a dyadic fraction of the mwi unit and   *)
(* is kept exactly (D..., below).  The RR durations delta * (1.0 / fs) are *)
(* not integers: they are computed as the doubles the code computes, with  *)
(* their 53-bit significands and round-to-nearest-even (Fp..., below).     *)
(***************************************************************************)
EXTENDS Integers, Sequences, FiniteSets, TLC

\* ------------------------------------------------------------------ bounds
\* MAX_SAMPLES and MAX_BEATS of the code are 10000 and 96; the model keeps
\* their roles with small capacities.
MaxSamplesBound == 12
MaxBeatsBound == 3
\* Every 0/1 signal of length 1 .. MaxDense is analysed.
MaxDense == 7
\* The filters are called on every input of length 1 .. MaxFilterLen.
MaxFilterLen == 4

\* ------------------------------------------------------- program constants
MAX_SAMPLES == MaxSamplesBound
MAX_BEATS == MaxBeatsBound

ECG_OK == 0
ECG_ERR_NULL == -1
ECG_ERR_PARAM == -2

REFRACTORY_PERIOD_MS == 200
LOW_PASS_WINDOW_MS == 150
MWI_WINDOW_MS == 150

\* The null pointer: a record no object equals.
NULL == [null |-> TRUE]
\* The null pointer to an array: an array no buffer equals.
NULL_ARRAY == [k \in {0 - 1} |-> 0]

\* 0.25 and 0.125 as num / 2^sh.
THRESHOLD_INITIAL_FACTOR == [num |-> 1, sh |-> 2]
SIGNAL_PEAK_DECAY_FACTOR == [num |-> 1, sh |-> 3]
NOISE_PEAK_DECAY_FACTOR == [num |-> 1, sh |-> 3]
Half == [num |-> 1, sh |-> 1]
Quarter == [num |-> 1, sh |-> 2]

\* The unit factor of the filters: each division by a window fill w <= 5
\* is exact.
Scale == 3 * 4 * 5

Max(a, b) == IF a >= b THEN a ELSE b

\* ---------------------------------------------------- exact dyadic numbers
\* [q, r, e] is q + r / 2^e with 0 <= r < 2^e, r odd unless e = 0.
RECURSIVE DNorm(_)
DNorm(a) ==
    IF a.e > 0 /\ a.r % 2 = 0
    THEN DNorm([q |-> a.q, r |-> a.r \div 2, e |-> a.e - 1])
    ELSE a

DInt(n) == [q |-> n, r |-> 0, e |-> 0]

DAdd(a, b) ==
    LET E == Max(a.e, b.e)
        s == a.r * 2^(E - a.e) + b.r * 2^(E - b.e)
    IN  DNorm([q |-> a.q + b.q + (s \div 2^E), r |-> s % 2^E, e |-> E])

DNeg(a) ==
    IF a.r = 0 THEN [q |-> 0 - a.q, r |-> 0, e |-> 0]
    ELSE [q |-> 0 - a.q - 1, r |-> 2^a.e - a.r, e |-> a.e]

DSub(a, b) == DAdd(a, DNeg(b))

\* a * c for an integer c >= 0.
DMulInt(a, c) ==
    LET p == a.r * c
    IN  DNorm([q |-> a.q * c + (p \div 2^a.e), r |-> p % 2^a.e, e |-> a.e])

\* a / 2^k.
DShr(a, k) ==
    DNorm([q |-> a.q \div 2^k, r |-> (a.q % 2^k) * 2^a.e + a.r, e |-> a.e + k])

\* f * a for a factor f = num / 2^sh.
Times(f, a) == DShr(DMulInt(a, f.num), f.sh)

\* 1.0 - f.
OneMinus(f) == [num |-> 2^f.sh - f.num, sh |-> f.sh]

DLess(a, b) ==
    LET E == Max(a.e, b.e)
    IN  \/ a.q < b.q
        \/ a.q = b.q /\ a.r * 2^(E - a.e) < b.r * 2^(E - b.e)

\* ------------------------------------------------- IEEE-754 double values
\* A positive double is [h, m, l, x]: its 53-bit significand in three limbs,
\* M = h * 2^36 + m * 2^18 + l with 2^16 <= h < 2^17 and m, l < 2^18, and its
\* value is M * 2^x.  Every operation rounds to nearest, ties to even, as
\* the default rounding mode of the C implementation does.
Limb == 2^18
HiMin == 2^16

\* The significand plus one unit in the last place.
FpInc(a) ==
    IF a.l + 1 < Limb THEN [a EXCEPT !.l = @ + 1]
    ELSE IF a.m + 1 < Limb THEN [a EXCEPT !.l = 0, !.m = @ + 1]
    ELSE IF a.h + 1 < 2 * HiMin THEN [a EXCEPT !.l = 0, !.m = 0, !.h = @ + 1]
    ELSE [h |-> HiMin, m |-> 0, l |-> 0, x |-> a.x + 1]

\* The double nearest to a + (guard / 2 + a non-zero rest iff sticky) units
\* in the last place.
FpRound(a, guard, sticky) ==
    IF guard = 1 /\ (sticky \/ a.l % 2 = 1) THEN FpInc(a) ELSE a

RECURSIVE ShiftUp(_, _, _)
\* p doubled until p >= q: [p, s] with s the doublings.
ShiftUp(p, q, s) == IF p >= q THEN [p |-> p, s |-> s] ELSE ShiftUp(2 * p, q, s + 1)

RECURSIVE ShiftDown(_, _, _)
\* q doubled while p >= 2 q.
ShiftDown(p, q, s) == IF p < 2 * q THEN [q |-> q, s |-> s] ELSE ShiftDown(p, 2 * q, s + 1)

\* The double p / q of two doubles that hold the integers 1 <= p, q < 2^12:
\* long division, one limb at a time.
FpDiv(p, q) ==
    LET u == ShiftUp(p, q, 0)
        d == ShiftDown(u.p, q, 0)
        h == (u.p * HiMin) \div d.q
        r1 == (u.p * HiMin) % d.q
        m == (r1 * Limb) \div d.q
        r2 == (r1 * Limb) % d.q
        l == (r2 * Limb) \div d.q
        r3 == (r2 * Limb) % d.q
    IN  FpRound([h |-> h, m |-> m, l |-> l, x |-> d.s - u.s - 52],
                (2 * r3) \div d.q, (2 * r3) % d.q # 0)

\* The exact product of the significand of a and 1 <= c < 2^12: [t, m, l]
\* with value t * 2^36 + m * 2^18 + l.
MulLimbs(a, c) ==
    LET pl == a.l * c
        pm == a.m * c + (pl \div Limb)
    IN  [t |-> a.h * c + (pm \div Limb), m |-> pm % Limb, l |-> pl % Limb]

\* The double c * a for a double c that holds the integer 1 <= c < 2^12.
FpMulInt(a, c) ==
    LET P == MulLimbs(a, c)
        k == CHOOSE j \in 0..13 : (P.t \div 2^j) \div HiMin = 1
        up == Limb \div 2^k
        dropped == P.l % 2^k
    IN  FpRound([h |-> P.t \div 2^k,
                 m |-> (P.t % 2^k) * up + (P.m \div 2^k),
                 l |-> (P.m % 2^k) * up + (P.l \div 2^k),
                 x |-> a.x + k],
                IF k = 0 THEN 0 ELSE dropped \div 2^(k - 1),
                k > 0 /\ dropped % 2^(k - 1) # 0)

\* a <= b, a >= b for doubles.
FpLeq(a, b) ==
    \/ a.x < b.x
    \/ /\ a.x = b.x
       /\ \/ a.h < b.h
          \/ a.h = b.h /\ a.m < b.m
          \/ a.h = b.h /\ a.m = b.m /\ a.l <= b.l
FpGeq(a, b) == FpLeq(b, a)

\* The real number a holds against the rational p / q (p <= 2, q < 2^12):
\* -1, 0 or 1 as it is smaller, equal or larger.
FpCmpRat(a, p, q) ==
    LET e == 0 - a.x
        P == MulLimbs(a, q)
        t == p * 2^(e - 36)
    IN  IF e < 36 THEN 1
        ELSE IF e > 64 THEN 0 - 1
        ELSE IF P.t # t THEN (IF P.t < t THEN 0 - 1 ELSE 1)
        ELSE IF P.m # 0 \/ P.l # 0 THEN 1
        ELSE 0
FpGeqRat(a, p, q) == FpCmpRat(a, p, q) >= 0
FpLeqRat(a, p, q) == FpCmpRat(a, p, q) <= 0

\* ------------------------------------------------------------ ecg_utils.c
\* A buffer is a function on 0 .. capacity-1.  A filter returns the writes
\* it makes, wr (index |-> value), and the indices of x it reads, rd.
\* Reading outside x is outside the object: the value read is then
\* indeterminate (0 here) and the index stays in rd.
At(x, k) == IF k \in DOMAIN x THEN x[k] ELSE 0

NoWrites == [wr |-> <<>>, rd |-> {}]

\* ------------------------------------------- sums that are not exact
\* A constant signal of 0.1 is the second kind of signal.  The double 0.1
\* is M * 2^-56 with the 53-bit M = 0x1999999999999A, and a sample 0.1 is
\* written Tenth.  A sum of such samples is j * Tenth + d with |d| below
\* Tenth / 2 and stands for (j * M + d) * 2^-56; the numbers of the first
\* kind are those with j = 0.  5 * M = 2^55 + 2 and M = 26 mod 64 give the
\* binade and the low bits of j * M + d.
Tenth == 2^20
TenthCount(v) == (v + Tenth \div 2) \div Tenth
TenthRest(v) == v - TenthCount(v) * Tenth

\* j * M + d >= 2^(52 + e).
AtLeastBinade(j, d, e) == 8 * j > 5 * 2^e \/ (8 * j = 5 * 2^e /\ 2 * j + 5 * d >= 0)

\* The spacing of the doubles at j * M + d, j >= 1.
Ulp(j, d) ==
    2^(CHOOSE e \in 0..4 : AtLeastBinade(j, d, e) /\ ~AtLeastBinade(j, d, e + 1))

\* (j * M + d) mod m, for m a power of two up to 64.
Low(j, d, m) == (26 * j + d) % m

\* The double nearest to v, ties to the even significand: the result of
\* an addition or subtraction of doubles whose exact value is v.
Fl(v) ==
    LET j == TenthCount(v)
        d == TenthRest(v)
        g == Ulp(j, d)
        r == Low(j, d, g)
    IN  IF j = 0 THEN v
        ELSE IF r = 0 THEN v
        ELSE IF 2 * r < g \/ (2 * r = g /\ Low(j, d - r, 2 * g) = 0) THEN v - r
        ELSE v + g - r

\* sum / (double)w in units 1/Scale: exact for a sum of the first kind; for
\* the sum of w samples 0.1 the double nearest to (w * M + d) / w, which is
\* M + e with e the integer nearest to d / w (ties to even, M is even); for
\* another sum j * Tenth + d the quotient by 1 or 2, which is exact.
Mean(sum, w) ==
    LET j == TenthCount(sum)
        d == TenthRest(sum)
        lo == d \div w
        r == d - lo * w
        e == IF 2 * r < w \/ (2 * r = w /\ lo % 2 = 0) THEN lo ELSE lo + 1
    IN  IF j = 0 THEN (Scale * sum) \div w
        ELSE Scale * (Tenth * (CHOOSE k \in 1..j :
                                  /\ k * w = j
                                  /\ k = 1 \/ (w \in {1, 2} /\ r = 0)) + e)

RECURSIVE MovingAverageLoop(_, _, _, _, _)
\* for (i = 0; i < n; ++i) of ecg_moving_average; st = [sum, w, wr, rd].
MovingAverageLoop(x, n, win, i, st) ==
    IF ~(i < n) THEN st
    ELSE LET sum1 == Fl(st.sum + At(x, i))
             w1 == st.w + 1
             leave == w1 > win
             sum2 == IF leave THEN Fl(sum1 - At(x, i - win)) ELSE sum1
             w2 == IF leave THEN w1 - 1 ELSE w1
         IN  MovingAverageLoop(x, n, win, i + 1,
                 [sum |-> sum2, w |-> w2,
                  wr |-> (i :> (IF w2 > 0 THEN Mean(sum2, w2) ELSE 0)) @@ st.wr,
                  rd |-> st.rd \cup {i} \cup (IF leave THEN {i - win} ELSE {})])

\* y[i] = the mean of the last win samples; y is in units 1/Scale of the
\* unit of x.
ecg_moving_average(x, n, win) ==
    IF x = NULL_ARRAY \/ n = 0 THEN NoWrites
    ELSE LET st == MovingAverageLoop(x, n, IF win = 0 THEN 1 ELSE win, 0,
                                     [sum |-> 0, w |-> 0, wr |-> <<>>, rd |-> {}])
         IN  [wr |-> st.wr, rd |-> st.rd]

RECURSIVE HighpassLoop(_, _, _, _, _)
\* for (i = 0; i < n; ++i) of ecg_highpass_ma; st = [sum, w, wr, rd].
HighpassLoop(x, n, win, i, st) ==
    IF ~(i < n) THEN st
    ELSE LET sum1 == Fl(st.sum + At(x, i))
             w1 == st.w + 1
             leave == w1 > win
             sum2 == IF leave THEN Fl(sum1 - At(x, i - win)) ELSE sum1
             w2 == IF leave THEN w1 - 1 ELSE w1
             ma == IF w2 > 0 THEN Mean(sum2, w2) ELSE 0
         IN  HighpassLoop(x, n, win, i + 1,
                 [sum |-> sum2, w |-> w2,
                  wr |-> (i :> (Scale * At(x, i) - ma)) @@ st.wr,
                  rd |-> st.rd \cup {i} \cup (IF leave THEN {i - win} ELSE {})])

\* The high-pass filter that subtracts the mean of the whole past.
ecg_highpass_all(x, n, win) ==
    IF x = NULL_ARRAY \/ n = 0 THEN NoWrites
    ELSE LET st == HighpassLoop(x, n, n, 0,
                                [sum |-> 0, w |-> 0, wr |-> <<>>, rd |-> {}])
         IN  [wr |-> st.wr, rd |-> st.rd]

\* y = x - MA(x); y is in units 1/Scale of the unit of x.
ecg_highpass_ma(x, n, win) ==
    IF x = NULL_ARRAY \/ n = 0 THEN NoWrites
    ELSE LET st == HighpassLoop(x, n, IF win = 0 THEN 1 ELSE win, 0,
                                [sum |-> 0, w |-> 0, wr |-> <<>>, rd |-> {}])
         IN  [wr |-> st.wr, rd |-> st.rd]

\* The derivative taken forwards: y[i] = x[i+1] - x[i].
ecg_derivative_forward(x, n) ==
    IF x = NULL_ARRAY \/ n = 0 THEN NoWrites
    ELSE [wr |-> [i \in 0..(n - 1) |-> IF i = n - 1 THEN 0 ELSE At(x, i + 1) - At(x, i)],
          rd |-> UNION {{i, i + 1} : i \in 0..(n - 2)}]

\* y[0] = 0, y[i] = x[i] - x[i-1].
ecg_derivative_1(x, n) ==
    IF x = NULL_ARRAY \/ n = 0 THEN NoWrites
    ELSE [wr |-> [i \in 0..(n - 1) |-> IF i = 0 THEN 0 ELSE At(x, i) - At(x, i - 1)],
          rd |-> UNION {{i, i - 1} : i \in 1..(n - 1)}]

\* y[i] = x[i] * x[i].
ecg_square(x, n) ==
    IF x = NULL_ARRAY \/ n = 0 THEN NoWrites
    ELSE [wr |-> [i \in 0..(n - 1) |-> At(x, i) * At(x, i)],
          rd |-> 0..(n - 1)]

RECURSIVE MwiLoop(_, _, _, _, _)
\* for (i = 0; i < n; ++i) of ecg_mwi.
MwiLoop(x, n, win, i, st) ==
    IF ~(i < n) THEN st
    ELSE LET sum1 == Fl(st.sum + At(x, i))
             w1 == st.w + 1
             leave == w1 > win
             sum2 == IF leave THEN Fl(sum1 - At(x, i - win)) ELSE sum1
             w2 == IF leave THEN w1 - 1 ELSE w1
         IN  MwiLoop(x, n, win, i + 1,
                 [sum |-> sum2, w |-> w2,
                  wr |-> (i :> (IF w2 > 0 THEN Mean(sum2, w2) ELSE 0)) @@ st.wr,
                  rd |-> st.rd \cup {i} \cup (IF leave THEN {i - win} ELSE {})])

\* The integration with a window of 0 left at 0.
ecg_mwi_raw(x, n, win) ==
    IF x = NULL_ARRAY \/ n = 0 THEN NoWrites
    ELSE LET st == MwiLoop(x, n, win, 0,
                           [sum |-> 0, w |-> 0, wr |-> <<>>, rd |-> {}])
         IN  [wr |-> st.wr, rd |-> st.rd]

\* Moving window integration; y is in units 1/Scale of the unit of x.
ecg_mwi(x, n, win) ==
    IF x = NULL_ARRAY \/ n = 0 THEN NoWrites
    ELSE LET st == MwiLoop(x, n, IF win = 0 THEN 1 ELSE win, 0,
                           [sum |-> 0, w |-> 0, wr |-> <<>>, rd |-> {}])
         IN  [wr |-> st.wr, rd |-> st.rd]

\* ------------------------------------------------------- ecg_processing.c
REFRACTORY_SAMPLES(heart_rate_hz) == (REFRACTORY_PERIOD_MS * heart_rate_hz) \div 1000
low_pass_window(fs) == (LOW_PASS_WINDOW_MS * fs) \div 1000
mwi_window(fs) == (MWI_WINDOW_MS * fs) \div 1000
refinement_window(fs) == REFRACTORY_SAMPLES(fs) \div 2

RECURSIVE FindMaxLoop(_, _, _, _, _)
\* for (i = start + 1; i <= end; i++) of find_max.
FindMaxLoop(signal, i, end, best_id, best_val) ==
    IF ~(i <= end) THEN best_id
    ELSE IF At(signal, i) > best_val
         THEN FindMaxLoop(signal, i + 1, end, i, At(signal, i))
         ELSE FindMaxLoop(signal, i + 1, end, best_id, best_val)

\* The window that starts at the candidate itself.
FindMaxStartAtCenter(center, half_window) == center

FindMaxStart(center, half_window) ==
    IF center - half_window > 0 THEN center - half_window ELSE 0

\* The end of the window without the clamp to n_samples - 1.
FindMaxEndUnclamped(n_samples, center, half_window) == center + half_window

\* (center + half_window < n_samples) is an unsigned comparison.
FindMaxEnd(n_samples, center, half_window) ==
    IF center + half_window >= 0 /\ center + half_window < n_samples
    THEN center + half_window ELSE n_samples - 1

\* The index of the first largest sample of signal[start .. end], and the
\* indices read.
find_max(signal, n_samples, center, half_window) ==
    LET start == FindMaxStart(center, half_window)
        end == FindMaxEnd(n_samples, center, half_window)
    IN  [id |-> FindMaxLoop(signal, start + 1, end, start, At(signal, start)),
         rd |-> {start} \cup (start + 1)..end]

\* The checks with the sample count compared one too high.
ValidateOneMore(a, c) ==
    IF a.ctx = NULL \/ a.signal = NULL \/ a.peaks = NULL THEN ECG_ERR_NULL
    ELSE IF a.n_samples = 0 \/ a.n_samples > MAX_SAMPLES + 1 THEN ECG_ERR_PARAM
    ELSE IF a.lead_idx < 0 \/ a.lead_idx >= c.params.leads THEN ECG_ERR_PARAM
    ELSE ECG_OK

\* The checks with the sample count tested before the pointers.
ValidateCountFirst(a, c) ==
    IF a.n_samples = 0 \/ a.n_samples > MAX_SAMPLES THEN ECG_ERR_PARAM
    ELSE IF a.ctx = NULL \/ a.signal = NULL \/ a.peaks = NULL THEN ECG_ERR_NULL
    ELSE IF a.lead_idx < 0 \/ a.lead_idx >= c.params.leads THEN ECG_ERR_PARAM
    ELSE ECG_OK

\* The three checks of ecg_analyze, in the order of the code; c is the
\* context a.ctx points to.
Validate(a, c) ==
    IF a.ctx = NULL \/ a.signal = NULL \/ a.peaks = NULL THEN ECG_ERR_NULL
    ELSE IF a.n_samples = 0 \/ a.n_samples > MAX_SAMPLES THEN ECG_ERR_PARAM
    ELSE IF a.lead_idx < 0 \/ a.lead_idx >= c.params.leads THEN ECG_ERR_PARAM
    ELSE ECG_OK

\* An early return that clears the counts of the output structure.
ClearFrame(out) == [f \in DOMAIN out |-> IF f \in {"R_count", "count"} THEN 0 ELSE out[f]]

\* What the three early returns leave in a caller-owned output structure.
RejectFrame(out) == out

\* The largest of 0.0 and the whole buffer, whatever n is.
MaxMwiOfBuffer(mwi, n) ==
    LET vals == {0} \cup {mwi[i] : i \in DOMAIN mwi}
    IN  CHOOSE v \in vals : \A u \in vals : u <= v

\* max_mwi: the largest of 0.0 and mwi[0 .. n-1].
MaxMwi(mwi, n) ==
    LET vals == {0} \cup {At(mwi, i) : i \in 0..(n - 1)}
    IN  CHOOSE v \in vals : \A u \in vals : u <= v

\* threshold = noise_peak + 0.25 * (signal_peak - noise_peak)
Threshold(signal_peak, noise_peak) ==
    DAdd(noise_peak, Times(Quarter, DSub(signal_peak, noise_peak)))

InitSignalPeak(max_mwi) == Times(THRESHOLD_INITIAL_FACTOR, DInt(max_mwi))
InitNoisePeak(max_mwi) == Times(Half, Times(THRESHOLD_INITIAL_FACTOR, DInt(max_mwi)))

\* noise_peak = (1.0 - NOISE_PEAK_DECAY_FACTOR) * noise_peak + NOISE_PEAK_DECAY_FACTOR * mwi[i]
NoiseUpdate(noise_peak, v) ==
    DAdd(Times(OneMinus(NOISE_PEAK_DECAY_FACTOR), noise_peak),
         Times(NOISE_PEAK_DECAY_FACTOR, DInt(v)))

\* signal_peak = (1.0 - SIGNAL_PEAK_DECAY_FACTOR) * signal_peak + SIGNAL_PEAK_DECAY_FACTOR * mwi[i]
SignalUpdate(signal_peak, v) ==
    DAdd(Times(OneMinus(SIGNAL_PEAK_DECAY_FACTOR), signal_peak),
         Times(SIGNAL_PEAK_DECAY_FACTOR, DInt(v)))

\* The loop condition without the capacity test.
ScanCondNoCap(i, n_samples, R_count) == i + 1 < n_samples

\* i + 1 < n_samples && peaks->R_count < MAX_BEATS
ScanCond(i, n_samples, R_count) == i + 1 < n_samples /\ R_count < MAX_BEATS

\* The test with >= on both sides.
IsLocalMaxWeak(mwi, i) == At(mwi, i) >= At(mwi, i - 1) /\ At(mwi, i) >= At(mwi, i + 1)

\* (mwi[i] > mwi[i-1]) && (mwi[i] >= mwi[i+1])
IsLocalMax(mwi, i) == At(mwi, i) > At(mwi, i - 1) /\ At(mwi, i) >= At(mwi, i + 1)

\* The indices of mwi the test reads: && reads mwi[i+1] only after the
\* first comparison holds.
LocalMaxReads(mwi, i) ==
    {i, i - 1} \cup (IF At(mwi, i) > At(mwi, i - 1) THEN {i + 1} ELSE {})

\* The refractory test over half the distance.
InHalfRefractory(i, last_r_index, refractory_samples) ==
    i - last_r_index < refractory_samples \div 2

\* (int)i - last_r_index < refractory_samples
InRefractory(i, last_r_index, refractory_samples) == i - last_r_index < refractory_samples

\* The threshold test with <=.
AtOrBelowThreshold(v, threshold) == ~DLess(threshold, DInt(v))

\* mwi[i] < threshold
BelowThreshold(v, threshold) == DLess(DInt(v), threshold)

\* The RR filter: rr = delta * interval_fs with interval_fs = 1.0 / (double)fs,
\* kept when rr >= 0.2 && rr <= 2.0.  FpZero stands for a value <= 0.
FpZero == [h |-> 0, m |-> 0, l |-> 0, x |-> 0]
RRValue(delta, fs) == IF delta <= 0 THEN FpZero ELSE FpMulInt(FpDiv(1, fs), delta)
RRKept(rr) == rr # FpZero /\ FpGeq(rr, FpDiv(1, 5)) /\ FpLeq(rr, FpDiv(2, 1))

RECURSIVE RRLoop(_, _, _, _)
\* for (i = 0; i + 1 < peaks->R_count && intervals->count < MAX_BEATS; i++)
RRLoop(pk, fs, i, iv) ==
    IF ~(i + 1 < pk.R_count /\ iv.count < MAX_BEATS) THEN iv
    ELSE LET delta == At(pk.R, i + 1) - At(pk.R, i)
             rr == RRValue(delta, fs)
         IN  IF RRKept(rr)
             THEN RRLoop(pk, fs, i + 1,
                         [RR |-> [iv.RR EXCEPT ![iv.count] = rr], count |-> iv.count + 1])
             ELSE RRLoop(pk, fs, i + 1, iv)

\* ------------------------------------------------------------ the inputs
\* Sampling rates: 5 Hz (both windows round down to 0 samples), 14 Hz
\* (window 2, refractory distance 2) and 35 Hz (window 5, refractory
\* distance 7).
FsValues == {5, 14, 35}
LeadsValues == {1}

\* What malloc may leave in a fresh buffer.
GarbageValues == {0, 0 - 7}

DenseSignals == UNION {[0..(n - 1) -> {0, 1}] : n \in 1..MaxDense}

\* Signals that fill the whole capacity: pulses on a zero baseline, of
\* height 1 at the places S and of height 4 at the places T.
PulsePositions == {0, 2, 3, 6, 9}
TallPositions == {9}
PulseSignal(S, T, n) ==
    [k \in 0..(n - 1) |-> IF k \in T THEN 4 ELSE IF k \in S THEN 1 ELSE 0]
PulseSignals ==
    {PulseSignal(S, T, MAX_SAMPLES) : S \in SUBSET PulsePositions, T \in SUBSET TallPositions}

\* n_samples = 0 and n_samples = MAX_SAMPLES + 1.
BoundarySignals == {<<>>, PulseSignal({2}, {}, MAX_SAMPLES + 1)}

\* The constant signals of 0.1.
TenthSignals == {[k \in 0..(n - 1) |-> Tenth] : n \in 1..MaxDense}

\* A signal whose first local maximum of the integrated signal equals the
\* initial threshold: 5/32 of the largest value.
EqualSignals == {PulseSignal({1}, {4, 5}, 6)}

Signals ==
    DenseSignals \cup PulseSignals \cup BoundarySignals \cup TenthSignals \cup EqualSignals

\* What the caller's output structures hold before the first call.
JunkPeaks == [R |-> [k \in 0..(MAX_BEATS - 1) |-> 0 - 1 - k], R_count |-> 1]
JunkIntervals == [RR |-> [k \in 0..(MAX_BEATS - 1) |-> FpDiv(1, 1)], count |-> 1]

\* --------------------------------------------------------------- the state
VARIABLES
    heap,       \* the live allocations
    ctx,        \* NULL or the ECG_Context: params and the four buffers
    signal,     \* the caller's sample buffer of the current call
    peaks,      \* the caller's ECG_Peaks: R, R_count
    intervals,  \* the caller's ECG_Intervals: RR, count
    args,       \* the arguments of the current (or last) ecg_analyze call
    pc,         \* where ecg_analyze stands; "idle" outside a call
    ret,        \* the status the last call returned, NoStatus before
    loc,        \* the locals of the scan
    calls,      \* calls of ecg_analyze made on the context
    old,        \* peaks, intervals and buffers as they were at the call
    acc,        \* the accesses of the current call: <<object, index>>
    coarse,     \* the integrated-signal indices the current call accepted
    first,      \* the first successful analysis on the context
    params,     \* the caller's ECG_Params structure
    op,         \* the last ecg_create or ecg_destroy call and its mallocs and frees
    unit,       \* a filter of ecg_utils called on its own: input and output
    other       \* a second caller with its own call, while it is not running

vars == <<heap, ctx, signal, peaks, intervals, args, pc, ret, loc, calls, old,
          acc, coarse, first, params, op, unit, other>>

Blocks == {"ctx", "high_pass_buffer", "derived_buffer", "squared_buffer", "mwi_buffer"}

NoLocals == [i |-> 0, max_mwi |-> 0, signal_peak |-> DInt(0), noise_peak |-> DInt(0),
             threshold |-> DInt(0), last_r_index |-> 0]
NoArgs == [ctx |-> NULL, signal |-> NULL, peaks |-> NULL, intervals |-> NULL,
           n_samples |-> 0, lead_idx |-> 0]
NoAccess == [rd |-> {}, wr |-> {}]
\* ret while no call has returned: a value that is no ECG_Status.
NoStatus == ECG_OK + 1

\* The allocations of the caller: its ECG_Params structure.
CallerBlocks == {"params"}

\* What the caller may hold in its ECG_Params.
ParamsValues == [sampling_rate_hz : FsValues, leads : LeadsValues]

NoCall == [name |-> "none", null |-> FALSE, params |-> NULL, fail |-> {}, got |-> {},
           freed |-> <<>>, before |-> CallerBlocks, base |-> CallerBlocks]
NoUnit == [f |-> "none", x |-> <<>>, n |-> 0, win |-> 0, y |-> <<>>]

\* The inputs of a filter called on its own: every x over four sample
\* values and the constant 0.1, every window from 0 to beyond the length,
\* and an output buffer that holds what malloc left.
FilterSamples == {0 - 1, 0, 1, 2}
FilterInputs ==
    UNION {[0..(n - 1) -> FilterSamples] \cup {[k \in 0..(n - 1) |-> Tenth]} :
           n \in 1..MaxFilterLen}
FilterWindows == 0..(MaxFilterLen + 1)
FilterCalls ==
    {[f |-> "none", x |-> x, n |-> Cardinality(DOMAIN x), win |-> win,
      y |-> [k \in 0..(MaxFilterLen - 1) |-> g]] :
     x \in FilterInputs, win \in FilterWindows, g \in GarbageValues}

\* Samples of two sizes that are not negative, for the two running means:
\* 8 * 0.1, then 3 * 2^-56, which is under half the spacing of the doubles
\* at 0.8, then zeros; the windows are those whose quotients are exact.
AbsorbInputs == {[k \in 0..3 |-> IF k = 0 THEN 8 * Tenth ELSE IF k = 1 THEN 3 ELSE 0]}
AbsorbCalls ==
    {[f |-> "none", x |-> x, n |-> Cardinality(DOMAIN x), win |-> win,
      y |-> [k \in 0..(MaxFilterLen - 1) |-> g]] :
     x \in AbsorbInputs, win \in {0, 1, 2}, g \in GarbageValues}

\* The second caller before it has a context or has made a call.
NoOther ==
    [id |-> 2, ctx |-> NULL, signal |-> <<>>, peaks |-> JunkPeaks,
     intervals |-> JunkIntervals, args |-> NoArgs, pc |-> "idle", ret |-> NoStatus,
     loc |-> NoLocals, calls |-> 0,
     old |-> [peaks |-> JunkPeaks, intervals |-> JunkIntervals, ctx |-> NULL],
     acc |-> NoAccess, coarse |-> <<>>, first |-> NULL]

\* The state before any call, but for the filter input.
Fresh ==
    /\ heap = CallerBlocks
    /\ ctx = NULL
    /\ signal = <<>>
    /\ peaks = JunkPeaks
    /\ intervals = JunkIntervals
    /\ args = NoArgs
    /\ pc = "idle"
    /\ ret = NoStatus
    /\ loc = NoLocals
    /\ calls = 0
    /\ old = [peaks |-> JunkPeaks, intervals |-> JunkIntervals, ctx |-> NULL]
    /\ acc = NoAccess
    /\ coarse = <<>>
    /\ first = NULL
    /\ params \in ParamsValues
    /\ op = NoCall
    /\ other = NoOther

Init == Fresh /\ unit = NoUnit

\* ------------------------------------------------- ecg_create, ecg_destroy
BufferBlocks == <<"high_pass_buffer", "derived_buffer", "squared_buffer", "mwi_buffer">>
Range(f) == {f[k] : k \in DOMAIN f}

\* ecg_create(params) when the allocations in fail return NULL; g is what
\* the fresh buffers hold.
ecg_create(p, fail, g) ==
    IF p = NULL THEN NULL
    ELSE IF "ctx" \in fail THEN NULL
    ELSE IF fail # {} THEN NULL
    ELSE [params |-> p,
          high_pass_buffer |-> [k \in 0..(MAX_SAMPLES - 1) |-> g],
          derived_buffer |-> [k \in 0..(MAX_SAMPLES - 1) |-> g],
          squared_buffer |-> [k \in 0..(MAX_SAMPLES - 1) |-> g],
          mwi_buffer |-> [k \in 0..(MAX_SAMPLES - 1) |-> g]]

\* The blocks the mallocs of that call return: none without params or
\* without the context block, else the context and every buffer that does
\* not fail (the four buffer mallocs are all made).
CreateMallocs(p, fail) ==
    IF p = NULL \/ "ctx" \in fail THEN {} ELSE Blocks \ fail

\* The failure path that releases the buffers and keeps the context block.
CreateFreesBuffers(p, fail) ==
    IF p = NULL \/ "ctx" \in fail \/ fail = {} THEN <<>>
    ELSE SelectSeq(BufferBlocks, LAMBDA b : b \notin fail)

\* The blocks that call frees, in order: on the failure path the four
\* buffer pointers (free(NULL) does nothing) and the context.
CreateFrees(p, fail) ==
    IF p = NULL \/ "ctx" \in fail \/ fail = {} THEN <<>>
    ELSE SelectSeq(BufferBlocks \o <<"ctx">>, LAMBDA b : b \notin fail)

\* The caller fills its ECG_Params (or passes NULL) and calls ecg_create.
Create ==
    /\ pc = "idle" /\ ctx = NULL /\ calls = 0
    /\ \E p \in ParamsValues, noParams \in BOOLEAN, g \in GarbageValues,
          fail \in SUBSET Blocks :
          LET arg == IF noParams THEN NULL ELSE p
              got == CreateMallocs(arg, fail)
              freed == CreateFrees(arg, fail)
          IN  /\ params' = p
              /\ ctx' = ecg_create(arg, fail, g)
              /\ heap' = (heap \cup got) \ Range(freed)
              /\ op' = [name |-> "create", null |-> noParams, params |-> arg,
                        fail |-> fail, got |-> got, freed |-> freed, before |-> heap,
                        base |-> heap]
    /\ UNCHANGED <<signal, peaks, intervals, args, pc, ret, loc, calls, old, acc,
                   coarse, first, unit, other>>

\* ecg_destroy that releases the buffers and keeps the context block.
DestroyFreesBuffers(c) == IF c = NULL THEN <<>> ELSE BufferBlocks

\* The blocks ecg_destroy(c) frees, in order.
DestroyFrees(c) == IF c = NULL THEN <<>> ELSE BufferBlocks \o <<"ctx">>

\* ecg_destroy(ctx), on the live context or on NULL.
Destroy ==
    /\ pc = "idle"
    /\ LET freed == DestroyFrees(ctx)
       IN  /\ heap' = heap \ Range(freed)
           /\ op' = [name |-> "destroy", null |-> (ctx = NULL), params |-> NULL,
                     fail |-> {}, got |-> {}, freed |-> freed, before |-> heap,
                     base |-> op.base]
    /\ ctx' = NULL
    /\ UNCHANGED <<signal, peaks, intervals, args, pc, ret, loc, calls, old, acc,
                   coarse, first, params, unit, other>>

\* ------------------------------------------------------------ ecg_analyze
\* The sampling rate read through the caller's ECG_Params.
caller_fs == params.sampling_rate_hz

fs == ctx.params.sampling_rate_hz
n_samples == args.n_samples

\* buf with the writes wr made; a write outside the buffer changes nothing
\* of the buffer (it lands outside the object).
Store(buf, wr) == [k \in DOMAIN buf |-> IF k \in DOMAIN wr THEN wr[k] ELSE buf[k]]

Log(name, idx) == {<<name, k>> : k \in idx}

\* The call: the arguments a, the caller's buffer sig, and the three checks.
Enter(a, sig) ==
    /\ pc = "idle"
    /\ args' = a
    /\ signal' = sig
    /\ old' = [peaks |-> peaks, intervals |-> intervals, ctx |-> ctx]
    /\ acc' = NoAccess
    /\ coarse' = <<>>
    /\ calls' = calls + 1
    /\ LET status == Validate(a, ctx)
       IN  IF status = ECG_OK
           THEN /\ pc' = "highpass"
                /\ ret' = NoStatus
                /\ UNCHANGED <<peaks, intervals>>
           ELSE /\ pc' = "idle"
                /\ ret' = status
                /\ peaks' = RejectFrame(peaks)
                /\ intervals' = RejectFrame(intervals)
    /\ UNCHANGED <<heap, ctx, loc, first, params, op, unit, other>>

Ptr(isNull, name) == IF isNull THEN NULL ELSE [obj |-> name]

\* A call with valid pointers and lead index; intervals may be NULL.
EnterValid ==
    /\ ctx # NULL /\ calls = 0
    /\ \E sig \in Signals, noIntervals \in BOOLEAN :
          Enter([ctx |-> Ptr(FALSE, "ctx"), signal |-> Ptr(FALSE, "signal"),
                 peaks |-> Ptr(FALSE, "peaks"),
                 intervals |-> Ptr(noIntervals, "intervals"),
                 n_samples |-> Cardinality(DOMAIN sig), lead_idx |-> 0], sig)

\* A call with any mix of NULL pointers and lead indices.
EnterAny ==
    /\ calls = 0
    /\ \E sig \in BoundarySignals \cup {PulseSignal({2}, {}, MAX_SAMPLES)},
          noCtx, noSignal, noPeaks, noIntervals \in BOOLEAN,
          lead \in {0 - 1, 0, 1} :
          /\ (ctx = NULL => noCtx)
          /\ Enter([ctx |-> Ptr(noCtx, "ctx"), signal |-> Ptr(noSignal, "signal"),
                    peaks |-> Ptr(noPeaks, "peaks"),
                    intervals |-> Ptr(noIntervals, "intervals"),
                    n_samples |-> Cardinality(DOMAIN sig), lead_idx |-> lead], sig)

\* 1. ecg_highpass_ma(signal, hp, n_samples, low_pass_window)
StageHighpass ==
    /\ pc = "highpass"
    /\ LET r == ecg_highpass_ma(signal, n_samples, low_pass_window(fs))
       IN  /\ ctx' = [ctx EXCEPT !.high_pass_buffer = Store(@, r.wr)]
           /\ acc' = [rd |-> acc.rd \cup Log("signal", r.rd),
                      wr |-> acc.wr \cup Log("hp", DOMAIN r.wr)]
    /\ pc' = "derivative"
    /\ UNCHANGED <<heap, signal, peaks, intervals, args, ret, loc, calls, old,
                   coarse, first, params, op, unit, other>>

\* 2. ecg_derivative_1(hp, deriv, n_samples)
StageDerivative ==
    /\ pc = "derivative"
    /\ LET r == ecg_derivative_1(ctx.high_pass_buffer, n_samples)
       IN  /\ ctx' = [ctx EXCEPT !.derived_buffer = Store(@, r.wr)]
           /\ acc' = [rd |-> acc.rd \cup Log("hp", r.rd),
                      wr |-> acc.wr \cup Log("deriv", DOMAIN r.wr)]
    /\ pc' = "square"
    /\ UNCHANGED <<heap, signal, peaks, intervals, args, ret, loc, calls, old,
                   coarse, first, params, op, unit, other>>

\* 3. ecg_square(deriv, squared, n_samples)
StageSquare ==
    /\ pc = "square"
    /\ LET r == ecg_square(ctx.derived_buffer, n_samples)
       IN  /\ ctx' = [ctx EXCEPT !.squared_buffer = Store(@, r.wr)]
           /\ acc' = [rd |-> acc.rd \cup Log("deriv", r.rd),
                      wr |-> acc.wr \cup Log("squared", DOMAIN r.wr)]
    /\ pc' = "mwi"
    /\ UNCHANGED <<heap, signal, peaks, intervals, args, ret, loc, calls, old,
                   coarse, first, params, op, unit, other>>

\* 4. ecg_mwi(squared, mwi, n_samples, mwi_window)
StageMwi ==
    /\ pc = "mwi"
    /\ LET r == ecg_mwi(ctx.squared_buffer, n_samples, mwi_window(fs))
       IN  /\ ctx' = [ctx EXCEPT !.mwi_buffer = Store(@, r.wr)]
           /\ acc' = [rd |-> acc.rd \cup Log("squared", r.rd),
                      wr |-> acc.wr \cup Log("mwi", DOMAIN r.wr)]
    /\ pc' = "init"
    /\ UNCHANGED <<heap, signal, peaks, intervals, args, ret, loc, calls, old,
                   coarse, first, params, op, unit, other>>

\* The scan started with last_r_index = 0.
ScanStartAtZero(mwi, n, refractory_samples) ==
    LET max_mwi == MaxMwi(mwi, n)
        signal_peak == InitSignalPeak(max_mwi)
        noise_peak == InitNoisePeak(max_mwi)
    IN  [i |-> 1, max_mwi |-> max_mwi, signal_peak |-> signal_peak,
         noise_peak |-> noise_peak, threshold |-> Threshold(signal_peak, noise_peak),
         last_r_index |-> 0]

\* 5. The adaptive state before the scan.
ScanStart(mwi, n, refractory_samples) ==
    LET max_mwi == MaxMwi(mwi, n)
        signal_peak == InitSignalPeak(max_mwi)
        noise_peak == InitNoisePeak(max_mwi)
    IN  [i |-> 1, max_mwi |-> max_mwi, signal_peak |-> signal_peak,
         noise_peak |-> noise_peak, threshold |-> Threshold(signal_peak, noise_peak),
         last_r_index |-> 0 - refractory_samples]

ScanInit ==
    /\ pc = "init"
    /\ loc' = ScanStart(ctx.mwi_buffer, n_samples, REFRACTORY_SAMPLES(fs))
    /\ peaks' = [peaks EXCEPT !.R_count = 0]
    /\ acc' = [acc EXCEPT !.rd = @ \cup Log("mwi", 0..(n_samples - 1))]
    /\ pc' = "scan"
    /\ UNCHANGED <<heap, ctx, signal, intervals, args, ret, calls, old, coarse, first,
                   params, op, unit, other>>

\* One turn of the detection loop whose sample is no local maximum.
ScanSkip ==
    /\ pc = "scan"
    /\ ScanCond(loc.i, n_samples, peaks.R_count)
    /\ ~IsLocalMax(ctx.mwi_buffer, loc.i)
    /\ loc' = [loc EXCEPT !.i = @ + 1]
    /\ acc' = [acc EXCEPT !.rd = @ \cup Log("mwi", LocalMaxReads(ctx.mwi_buffer, loc.i))]
    /\ UNCHANGED <<heap, ctx, signal, peaks, intervals, args, pc, ret, calls, old,
                   coarse, first, params, op, unit, other>>

\* The noise branch, taken by either gate.
Reject ==
    LET noise_peak == NoiseUpdate(loc.noise_peak, At(ctx.mwi_buffer, loc.i))
    IN  /\ loc' = [loc EXCEPT !.i = @ + 1,
                              !.noise_peak = noise_peak,
                              !.threshold = Threshold(loc.signal_peak, noise_peak)]
        /\ acc' = [acc EXCEPT !.rd = @ \cup Log("mwi", LocalMaxReads(ctx.mwi_buffer, loc.i))]
        /\ UNCHANGED <<heap, ctx, signal, peaks, intervals, args, pc, ret, calls,
                       old, coarse, first, params, op, unit, other>>

\* A local maximum inside the refractory period.
ScanRefractory ==
    /\ pc = "scan"
    /\ ScanCond(loc.i, n_samples, peaks.R_count)
    /\ IsLocalMax(ctx.mwi_buffer, loc.i)
    /\ InRefractory(loc.i, loc.last_r_index, REFRACTORY_SAMPLES(fs))
    /\ Reject

\* A local maximum under the threshold.
ScanBelowThreshold ==
    /\ pc = "scan"
    /\ ScanCond(loc.i, n_samples, peaks.R_count)
    /\ IsLocalMax(ctx.mwi_buffer, loc.i)
    /\ ~InRefractory(loc.i, loc.last_r_index, REFRACTORY_SAMPLES(fs))
    /\ BelowThreshold(At(ctx.mwi_buffer, loc.i), loc.threshold)
    /\ Reject

\* The refined index kept as the last accepted one.
LastRefined(i, r_index) == r_index

\* last_r_index = (int)i
LastAccepted(i, r_index) == i

\* peaks->R[peaks->R_count] = r_index; a store outside R lands outside the
\* array.
StorePeak(pk, r_index) ==
    [R |-> Store(pk.R, pk.R_count :> r_index), R_count |-> pk.R_count + 1]

\* An R peak: refined on the raw signal and stored.
ScanAccept ==
    /\ pc = "scan"
    /\ ScanCond(loc.i, n_samples, peaks.R_count)
    /\ IsLocalMax(ctx.mwi_buffer, loc.i)
    /\ ~InRefractory(loc.i, loc.last_r_index, REFRACTORY_SAMPLES(fs))
    /\ ~BelowThreshold(At(ctx.mwi_buffer, loc.i), loc.threshold)
    /\ LET r == find_max(signal, n_samples, loc.i, refinement_window(fs))
           signal_peak == SignalUpdate(loc.signal_peak, At(ctx.mwi_buffer, loc.i))
       IN  /\ peaks' = StorePeak(peaks, r.id)
           /\ loc' = [loc EXCEPT !.i = @ + 1,
                                 !.signal_peak = signal_peak,
                                 !.threshold = Threshold(signal_peak, loc.noise_peak),
                                 !.last_r_index = LastAccepted(loc.i, r.id)]
           /\ acc' = [rd |-> acc.rd \cup Log("mwi", LocalMaxReads(ctx.mwi_buffer, loc.i))
                                    \cup Log("signal", r.rd),
                      wr |-> acc.wr \cup {<<"R", peaks.R_count>>}]
    /\ coarse' = Append(coarse, loc.i)
    /\ UNCHANGED <<heap, ctx, signal, intervals, args, pc, ret, calls, old, first,
                   params, op, unit, other>>

\* 7. The RR intervals of the call, when intervals is given.
RRIntervals(iv, pk, rate) ==
    RRLoop(pk, rate, 0, [RR |-> iv.RR, count |-> 0])

\* What a successful call with the arguments a on the buffer sig has
\* delivered in pk and iv: the peaks and the intervals stored.
Result(a, sig, pk, iv) ==
    [args |-> a, signal |-> sig,
     R |-> [k \in 0..(pk.R_count - 1) |-> At(pk.R, k)],
     RR |-> IF a.intervals = NULL THEN NULL_ARRAY
            ELSE [k \in 0..(iv.count - 1) |-> iv.RR[k]]]

\* The end of the loop, the intervals and return ECG_OK.
Finish ==
    /\ pc = "scan"
    /\ ~ScanCond(loc.i, n_samples, peaks.R_count)
    /\ intervals' = IF args.intervals = NULL THEN intervals
                    ELSE RRIntervals(intervals, peaks, fs)
    /\ pc' = "idle"
    /\ ret' = ECG_OK
    /\ loc' = NoLocals
    /\ peaks' = peaks
    /\ first' = IF first = NULL THEN Result(args, signal, peaks', intervals') ELSE first
    /\ UNCHANGED <<heap, ctx, signal, args, calls, old, acc, coarse, params, op, unit, other>>

Next ==
    \/ Create
    \/ Destroy
    \/ EnterValid
    \/ EnterAny
    \/ StageHighpass
    \/ StageDerivative
    \/ StageSquare
    \/ StageMwi
    \/ ScanInit
    \/ ScanSkip
    \/ ScanRefractory
    \/ ScanBelowThreshold
    \/ ScanAccept
    \/ Finish

Spec == Init /\ [][Next]_vars

\* ------------------------------------------------- one context, three calls
\* The same analysis on a fresh context and again after another call.
ReuseSignals == PulseSignals \cup UNION {[0..(n - 1) -> {0, 1}] : n \in 1..(MaxDense - 1)}

\* The calls in between: four beats, a tall beat, a short signal and a call
\* that fails.
HistorySignals ==
    {PulseSignal({0, 3, 6, 9}, {}, MAX_SAMPLES), PulseSignal({2}, {9}, MAX_SAMPLES),
     PulseSignal({0}, {}, 2), <<>>}

ValidArgs(sig, noIntervals) ==
    [ctx |-> Ptr(FALSE, "ctx"), signal |-> Ptr(FALSE, "signal"),
     peaks |-> Ptr(FALSE, "peaks"), intervals |-> Ptr(noIntervals, "intervals"),
     n_samples |-> Cardinality(DOMAIN sig), lead_idx |-> 0]

\* The first call on the fresh context.
EnterFresh ==
    /\ ctx # NULL /\ calls = 0
    /\ \E sig \in ReuseSignals, noIntervals \in BOOLEAN : Enter(ValidArgs(sig, noIntervals), sig)

\* Another analysis on the same context.
EnterHistory ==
    /\ ctx # NULL /\ calls = 1
    /\ \E sig \in HistorySignals : Enter(ValidArgs(sig, FALSE), sig)

\* The first call again: same signal, n_samples, lead_idx.
EnterAgain ==
    /\ ctx # NULL /\ calls = 2 /\ first # NULL
    /\ Enter(first.args, first.signal)

NextReuse ==
    \/ Create
    \/ EnterFresh
    \/ EnterHistory
    \/ EnterAgain
    \/ StageHighpass
    \/ StageDerivative
    \/ StageSquare
    \/ StageMwi
    \/ ScanInit
    \/ ScanSkip
    \/ ScanRefractory
    \/ ScanBelowThreshold
    \/ ScanAccept
    \/ Finish

SpecReuse == Init /\ [][NextReuse]_vars

\* ------------------------------------- the caller changes its ECG_Params
\* What the caller's structure may hold later.
LaterParams == [sampling_rate_hz : FsValues, leads : {1, 2}]

\* The caller overwrites its ECG_Params after ecg_create, or frees it (what
\* the block holds is then anything).
ChangeParams ==
    /\ pc = "idle" /\ ctx # NULL /\ calls \in {0, 1} /\ params = ctx.params
    /\ \E p \in LaterParams \ {params}, free \in BOOLEAN :
          /\ params' = p
          /\ heap' = IF free THEN heap \ CallerBlocks ELSE heap
    /\ UNCHANGED <<ctx, signal, peaks, intervals, args, pc, ret, loc, calls, old, acc,
                   coarse, first, op, unit, other>>

\* The first call, with lead index 0 or 1.
EnterFirst ==
    /\ ctx # NULL /\ calls = 0
    /\ \E sig \in PulseSignals, lead \in {0, 1} :
          Enter([ValidArgs(sig, FALSE) EXCEPT !.lead_idx = lead], sig)

\* The same call once more.
EnterRepeat ==
    /\ ctx # NULL /\ calls = 1
    /\ Enter(args, signal)

NextParams ==
    \/ Create
    \/ ChangeParams
    \/ EnterFirst
    \/ EnterRepeat
    \/ StageHighpass
    \/ StageDerivative
    \/ StageSquare
    \/ StageMwi
    \/ ScanInit
    \/ ScanSkip
    \/ ScanRefractory
    \/ ScanBelowThreshold
    \/ ScanAccept
    \/ Finish

SpecParams == Init /\ [][NextParams]_vars

\* ------------------------------------------- the filters on their own
InitFilters == Fresh /\ unit \in FilterCalls \cup AbsorbCalls

\* The call f(x, y, n, win) that makes the writes wr.
Filter(f, wr) ==
    /\ unit.f = "none"
    /\ unit' = [unit EXCEPT !.f = f, !.y = Store(@, wr)]
    /\ UNCHANGED <<heap, ctx, signal, peaks, intervals, args, pc, ret, loc, calls, old,
                   acc, coarse, first, params, op, other>>

MovingAverage == Filter("moving_average", ecg_moving_average(unit.x, unit.n, unit.win).wr)
\* The differences x - y of these two are exact on FilterInputs.
Highpass ==
    /\ unit.x \in FilterInputs
    /\ Filter("highpass", ecg_highpass_ma(unit.x, unit.n, unit.win).wr)
Derivative ==
    /\ unit.x \in FilterInputs
    /\ Filter("derivative", ecg_derivative_1(unit.x, unit.n).wr)
Mwi == Filter("mwi", ecg_mwi(unit.x, unit.n, unit.win).wr)

NextFilters ==
    \/ MovingAverage
    \/ Highpass
    \/ Derivative
    \/ Mwi

SpecFilters == InitFilters /\ [][NextFilters]_vars

\* ------------------------------------------------ two calls at a time
\* Two callers, each with its context, its ECG_Peaks and ECG_Intervals and
\* its call of ecg_analyze; they may pass the same sample buffer.  One of
\* them runs, in the variables of the single caller; the one that waits is
\* in other.  Each analyses its signal once while the other one is outside
\* a call, and then again while the other one may be inside its second call.
TwoSignals ==
    {PulseSignal({0, 3, 6, 9}, {}, MAX_SAMPLES), PulseSignal({2}, {9}, MAX_SAMPLES),
     PulseSignal({0, 3}, {}, 6)} \cup EqualSignals

\* The one context both callers pass: the call goes on in the context the
\* call before it worked on.
SharedContext(own, running) == running

\* The context a caller's call works on when the caller gets the
\* processor: its own one, whatever the call that ran before worked on.
ThreadContext(own, running) == own

InitTwo ==
    /\ \E p \in ParamsValues, q \in ParamsValues, g \in GarbageValues :
          /\ params = q
          /\ ctx = ecg_create(p, {}, g)
          /\ other = [NoOther EXCEPT !.ctx = ecg_create(q, {}, g)]
    /\ heap = CallerBlocks \cup Blocks
    /\ signal = <<>>
    /\ peaks = JunkPeaks
    /\ intervals = JunkIntervals
    /\ args = NoArgs
    /\ pc = "idle"
    /\ ret = NoStatus
    /\ loc = NoLocals
    /\ calls = 0
    /\ old = [peaks |-> JunkPeaks, intervals |-> JunkIntervals, ctx |-> NULL]
    /\ acc = NoAccess
    /\ coarse = <<>>
    /\ first = NULL
    /\ op = NoCall
    /\ unit = NoUnit

\* The first call of a caller, made while the other caller is in no call.
EnterAlone ==
    /\ calls = 0 /\ other.pc = "idle"
    /\ \E sig \in TwoSignals : Enter(ValidArgs(sig, FALSE), sig)

\* The same call again, while the other caller may be inside its own
\* second call.
EnterTogether ==
    /\ calls = 1 /\ first # NULL
    /\ other.pc = "idle" \/ other.calls = 2
    /\ Enter(first.args, first.signal)

\* The running caller is stopped where it stands, inside a call or outside,
\* and the other one goes on.
Switch ==
    /\ other' = [id |-> 3 - other.id, ctx |-> ctx, signal |-> signal, peaks |-> peaks,
                 intervals |-> intervals, args |-> args, pc |-> pc, ret |-> ret,
                 loc |-> loc, calls |-> calls, old |-> old, acc |-> acc,
                 coarse |-> coarse, first |-> first]
    /\ ctx' = ThreadContext(other.ctx, ctx)
    /\ signal' = other.signal
    /\ peaks' = other.peaks
    /\ intervals' = other.intervals
    /\ args' = other.args
    /\ pc' = other.pc
    /\ ret' = other.ret
    /\ loc' = other.loc
    /\ calls' = other.calls
    /\ old' = other.old
    /\ acc' = other.acc
    /\ coarse' = other.coarse
    /\ first' = other.first
    /\ UNCHANGED <<heap, params, op, unit>>

NextTwo ==
    \/ EnterAlone
    \/ EnterTogether
    \/ Switch
    \/ StageHighpass
    \/ StageDerivative
    \/ StageSquare
    \/ StageMwi
    \/ ScanInit
    \/ ScanSkip
    \/ ScanRefractory
    \/ ScanBelowThreshold
    \/ ScanAccept
    \/ Finish

SpecTwo == InitTwo /\ [][NextTwo]_vars

\* ------------------------------------------------------------- properties
\* The last call has returned.
Returned == pc = "idle" /\ ret # NoStatus
NullArgument == args.ctx = NULL \/ args.signal = NULL \/ args.peaks = NULL
BadCount == args.n_samples = 0 \/ args.n_samples > MAX_SAMPLES
BadLead == args.lead_idx < 0 \/ args.lead_idx >= old.ctx.params.leads

\* C1: ecg_analyze returns the code of the first precondition that fails, in
\* the order NULL pointers (ECG_ERR_NULL, whatever n_samples and lead_idx
\* are), sample count (ECG_ERR_PARAM), lead index (ECG_ERR_PARAM); it runs
\* the pipeline and returns ECG_OK only when all three checks pass.
C1_FirstFailingCheck ==
    /\ Returned =>
          /\ NullArgument => ret = ECG_ERR_NULL
          /\ (~NullArgument /\ BadCount) => ret = ECG_ERR_PARAM
          /\ (~NullArgument /\ ~BadCount /\ BadLead) => ret = ECG_ERR_PARAM
          /\ (~NullArgument /\ ~BadCount /\ ~BadLead) => ret = ECG_OK
    /\ pc # "idle" => (~NullArgument /\ ~BadCount /\ ~BadLead)

\* A call with a NULL pointer, an oversize count and a negative lead index
\* at once has returned ECG_ERR_NULL.
C1_Witness ==
    /\ Returned /\ ret = ECG_ERR_NULL
    /\ args.peaks = NULL /\ args.n_samples > MAX_SAMPLES /\ args.lead_idx < 0

\* C2: when ecg_analyze returns ECG_ERR_NULL or ECG_ERR_PARAM, peaks (R and
\* R_count) and intervals (RR and count) are as they were before the call.
C2_ErrorLeavesOutputs ==
    (Returned /\ ret \in {ECG_ERR_NULL, ECG_ERR_PARAM}) =>
        (peaks = old.peaks /\ intervals = old.intervals)

\* A call has failed on its lead index while the outputs held earlier content.
C2_Witness ==
    /\ Returned /\ ret = ECG_ERR_PARAM
    /\ ~NullArgument /\ ~BadCount /\ BadLead
    /\ peaks.R_count > 0 /\ intervals.count > 0

\* The last call has returned ECG_OK.
Succeeded == Returned /\ ret = ECG_OK
rate == old.ctx.params.sampling_rate_hz

\* The gaps between consecutive stored peaks, in samples, first gap first.
Gaps == [k \in 1..(peaks.R_count - 1) |-> peaks.R[k] - peaks.R[k - 1]]

\* C3: after a successful ecg_analyze any two consecutive stored peaks
\* a = R[k], b = R[k+1] satisfy b - a >= refractoryDistance, the refractory
\* sample count of the context's sampling rate.
C3_RefractoryDistance ==
    Succeeded => \A k \in 1..(peaks.R_count - 1) : Gaps[k] >= REFRACTORY_SAMPLES(rate)

\* C4: after a successful ecg_analyze the stored peaks R[0 .. R_count-1]
\* are strictly increasing.
C4_StrictlyIncreasing ==
    Succeeded => \A k \in 0..(peaks.R_count - 2) : peaks.R[k] < peaks.R[k + 1]

\* A gap of delta samples lasts between 0.2 s and 2.0 s at fs samples a
\* second (in exact arithmetic).
Plausible(delta, sampling_rate) == 5 * delta >= sampling_rate /\ delta <= 2 * sampling_rate

\* The plausible gaps, in order.
PlausibleGaps == SelectSeq(Gaps, LAMBDA d : Plausible(d, rate))

\* C5: after a successful ecg_analyze with intervals given, every stored
\* RR[j], j < count, lies in [0.2, 2.0] seconds, and count is the number of
\* gaps between consecutive peaks less the gaps whose duration is outside
\* [0.2, 2.0].
C5_IntervalsInRange ==
    (Succeeded /\ args.intervals # NULL) =>
        /\ \A j \in 0..(intervals.count - 1) :
              FpGeqRat(intervals.RR[j], 1, 5) /\ FpLeqRat(intervals.RR[j], 2, 1)
        /\ intervals.count =
              Len(Gaps) - Cardinality({k \in 1..Len(Gaps) : ~Plausible(Gaps[k], rate)})

\* C6: with intervals given, the stored intervals are exactly the values of
\* the gaps with 0.2 <= (R[k+1] - R[k]) / fs <= 2.0, in order, at most
\* MAX_BEATS - 1 of them; with intervals NULL the call succeeds, fills peaks
\* and writes nothing for intervals.
C6_IntervalsAreTheGaps ==
    /\ (Succeeded /\ args.intervals # NULL) =>
          /\ [j \in 1..intervals.count |-> intervals.RR[j - 1]]
                = [j \in 1..Len(PlausibleGaps) |-> RRValue(PlausibleGaps[j], rate)]
          /\ intervals.count <= MAX_BEATS - 1
    /\ (Returned /\ ~NullArgument /\ ~BadCount /\ ~BadLead /\ args.intervals = NULL) =>
          /\ ret = ECG_OK
          /\ peaks.R_count = Len(coarse)
          /\ intervals = old.intervals

\* C7: the same signal, n_samples and lead_idx give the same peak sequence
\* and the same interval sequence on a fresh context and on one used for
\* another analysis before.
C7_IndependentOfHistory ==
    (Succeeded /\ calls = 3) =>
        LET again == Result(args, signal, peaks, intervals)
        IN  again.R = first.R /\ again.RR = first.RR

\* The analysis was repeated after a longer one, whose integrated signal is
\* still in the buffer behind the n_samples of this call, and found beats.
C7_Witness ==
    /\ Succeeded /\ calls = 3 /\ ctx # NULL
    /\ peaks.R_count >= 2 /\ args.intervals # NULL /\ intervals.count >= 1
    /\ \E k \in args.n_samples..(MAX_SAMPLES - 1) : ctx.mwi_buffer[k] > 0

\* Every access of the current call to the signal and the working buffers.
BufferAccesses == {a \in acc.rd \cup acc.wr : a[1] # "R"}

\* C8: a call with n_samples = MAX_SAMPLES + 1 returns ECG_ERR_PARAM without
\* reading a sample and without writing a working buffer; no index >=
\* MAX_SAMPLES is ever read or written; n_samples = MAX_SAMPLES is accepted.
C8_CountBoundary ==
    /\ (Returned /\ ~NullArgument /\ args.n_samples = MAX_SAMPLES + 1) =>
          /\ ret = ECG_ERR_PARAM
          /\ acc = NoAccess
          /\ (ctx = NULL \/ ctx = old.ctx)
    /\ \A a \in BufferAccesses : a[2] < MAX_SAMPLES
    /\ (Returned /\ ~NullArgument /\ ~BadLead /\ args.n_samples = MAX_SAMPLES) =>
          ret = ECG_OK

\* A call with valid pointers and n_samples = MAX_SAMPLES + 1 has returned.
C8_Witness ==
    /\ Returned /\ ~NullArgument /\ args.lead_idx = 0
    /\ args.n_samples = MAX_SAMPLES + 1
    /\ ctx # NULL /\ ret = ECG_ERR_PARAM

\* C9: every write of the four stages and every read of the stages, of the
\* scan and of find_max uses an index in [0, n_samples).
C9_AccessesInRange ==
    \A a \in BufferAccesses : 0 <= a[2] /\ a[2] < args.n_samples

\* A call has accepted a candidate so close to the end that the refinement
\* window was cut at n_samples - 1, and has read the first and the last
\* element of the integrated signal.
C9_Witness ==
    /\ Succeeded
    /\ \E k \in 1..Len(coarse) : coarse[k] + refinement_window(rate) > args.n_samples - 1
    /\ {<<"signal", args.n_samples - 1>>, <<"mwi", args.n_samples - 1>>, <<"mwi", 0>>}
          \subseteq acc.rd
    /\ <<"hp", args.n_samples - 1>> \in acc.wr

\* C10: during the scan 0 <= R_count <= MAX_BEATS, a peak is written only at
\* an index below MAX_BEATS, the peaks stored keep their values and order,
\* and once MAX_BEATS peaks are stored no further peak is stored.
C10_Capacity ==
    /\ pc = "scan" => (0 <= peaks.R_count /\ peaks.R_count <= MAX_BEATS)
    /\ \A a \in acc.wr : a[1] = "R" => (0 <= a[2] /\ a[2] < MAX_BEATS)
C10_Kept ==
    pc = "scan" =>
        /\ peaks'.R_count >= peaks.R_count
        /\ \A k \in 0..(peaks.R_count - 1) : peaks'.R[k] = peaks.R[k]
        /\ peaks.R_count = MAX_BEATS => peaks' = peaks
C10_NoOverflow == [](C10_Capacity) /\ [][C10_Kept]_vars

\* The scan has stored MAX_BEATS peaks while samples remain.
C10_Witness ==
    /\ pc = "scan" /\ peaks.R_count = MAX_BEATS
    /\ loc.i + 1 < args.n_samples

\* A window or distance the call derives from the sampling rate is zero.
ZeroWindow ==
    \/ low_pass_window(rate) = 0
    \/ mwi_window(rate) = 0
    \/ REFRACTORY_SAMPLES(rate) = 0

\* C11: ecg_analyze returns ECG_ERR_PARAM when the high-pass window, the
\* integration window or the refractory distance derived from the sampling
\* rate is zero.
C11_ZeroWindowRejected ==
    (Returned /\ ~NullArgument /\ ZeroWindow) => ret = ECG_ERR_PARAM

\* The last lifecycle call was ecg_create / ecg_destroy.
Created == op.name = "create"
Destroyed == op.name = "destroy"

\* C12: ecg_create is atomic.  With params NULL it returns NULL and allocates
\* nothing; when every allocation succeeds it returns a context that owns
\* four buffers of MAX_SAMPLES doubles; when the context block or any
\* subset of the four buffers fails it returns NULL and has freed, once
\* each, exactly the blocks it had allocated, so that nothing it allocated
\* stays live.
C12_CreateAtomic ==
    Created =>
        /\ op.null => (ctx = NULL /\ op.got = {} /\ heap = op.before)
        /\ (~op.null /\ op.fail = {}) =>
              /\ ctx # NULL
              /\ heap = op.before \cup Blocks /\ op.before \cap Blocks = {}
              /\ \A b \in Range(BufferBlocks) :
                    DOMAIN ctx[b] = 0..(MAX_SAMPLES - 1)
        /\ (~op.null /\ op.fail # {}) =>
              /\ ctx = NULL
              /\ Range(op.freed) = op.got
              /\ Len(op.freed) = Cardinality(op.got)
              /\ heap = op.before

\* ecg_create has failed on two of the buffers after the context block and
\* the two other buffers were allocated, and has freed those three.
C12_Witness ==
    /\ Created /\ ~op.null /\ ctx = NULL
    /\ op.fail = {"derived_buffer", "mwi_buffer"}
    /\ op.freed = <<"high_pass_buffer", "squared_buffer", "ctx">>

\* After ecg_destroy(NULL) nothing is freed; after ecg_destroy of the live
\* context the four buffers and the context have been freed once each, all
\* of them live before, and the live set is that before ecg_create.
C13_Destroyed ==
    Destroyed =>
        /\ op.null => (op.freed = <<>> /\ heap = op.before)
        /\ ~op.null =>
              /\ Range(op.freed) = Blocks /\ Len(op.freed) = Cardinality(Blocks)
              /\ Blocks \subseteq op.before
              /\ heap = op.base

\* A step of ecg_analyze leaves the live set; the live set changes only in
\* a step of ecg_create or ecg_destroy, outside every analysis.
C13_Step ==
    /\ (pc # "idle" \/ pc' # "idle" \/ calls' # calls) => heap' = heap
    /\ heap' # heap =>
          /\ op' # op /\ op'.before = heap
          /\ UNCHANGED <<signal, peaks, intervals, args, pc, ret, calls>>

\* C13: over ecg_create, any number of ecg_analyze calls and ecg_destroy,
\* the live allocations change only inside ecg_create and ecg_destroy;
\* ecg_analyze neither allocates nor frees; ecg_destroy frees each of the
\* four buffers and the context exactly once and leaves the live set of
\* before ecg_create; ecg_destroy(NULL) does nothing.
C13_HeapLifecycle == [](C13_Destroyed) /\ [][C13_Step]_vars

\* A context that has analysed a signal and found a beat has been destroyed.
C13_Witness ==
    /\ Destroyed /\ ~op.null /\ ctx = NULL
    /\ calls = 1 /\ ret = ECG_OK /\ peaks.R_count > 0

\* C14: ecg_create copies the parameters by value.  Whatever the caller
\* does to its own ECG_Params afterwards (new values, or freeing it), the
\* context keeps the values of creation time, and every later ecg_analyze
\* validates the lead index against them, scans at the sampling rate of
\* creation time and delivers the peaks and intervals it delivered before
\* the change.
C14_ParamsCopied ==
    /\ (Created /\ ctx # NULL) => ctx.params = op.params
    /\ pc # "idle" => fs = op.params.sampling_rate_hz
    /\ (Returned /\ ~NullArgument /\ ~BadCount) =>
          (ret = ECG_ERR_PARAM <=>
              (args.lead_idx < 0 \/ args.lead_idx >= op.params.leads))
    /\ (Succeeded /\ calls = 2) =>
          LET again == Result(args, signal, peaks, intervals)
          IN  again.R = first.R /\ again.RR = first.RR

\* The second call has found beats after the caller put another sampling
\* rate and another lead count into its structure and freed it.
C14_Witness ==
    /\ Succeeded /\ calls = 2 /\ peaks.R_count >= 2 /\ intervals.count >= 1
    /\ params.sampling_rate_hz # ctx.params.sampling_rate_hz
    /\ params.leads # ctx.params.leads
    /\ "params" \notin heap

\* Every sample of the signal has the same value.
ConstantSignal == \A k \in DOMAIN signal : signal[k] = signal[0]

\* C19: for an all-zero or constant signal the high-pass output is zero at
\* every index, and ecg_analyze returns ECG_OK with no peak and no interval.
C19_ConstantIsQuiet ==
    (Returned /\ ~NullArgument /\ ~BadCount /\ ~BadLead /\ ConstantSignal) =>
        /\ ret = ECG_OK
        /\ ctx # NULL => \A k \in 0..(args.n_samples - 1) : ctx.high_pass_buffer[k] = 0
        /\ peaks.R_count = 0
        /\ args.intervals # NULL => intervals.count = 0

\* The window of output i: the last win samples, fewer at the start; a
\* window of 0 is a window of 1.
WindowOf(i, win) == Max(0, i - (IF win = 0 THEN 1 ELSE win) + 1)..i

RECURSIVE SumOver(_, _)
\* The exact sum of x over the indices S.
SumOver(x, S) ==
    IF S = {} THEN 0
    ELSE LET k == CHOOSE k \in S : TRUE IN x[k] + SumOver(x, S \ {k})

\* m is the exact mean of x over the indices S, in units 1/Scale.
IsMean(m, x, S) == m * Cardinality(S) = Scale * SumOver(x, S)

\* C15: ecg_moving_average returns y[i] = mean(x[max(0, i-win+1) .. i]): the
\* running sum after step i is the sum of exactly the last min(i+1, win)
\* samples, and win = 0 gives what win = 1 gives, y = x.
C15_MovingAverageIsMean ==
    unit.f = "moving_average" =>
        /\ \A i \in 0..(unit.n - 1) : IsMean(unit.y[i], unit.x, WindowOf(i, unit.win))
        /\ unit.win = 0 => \A i \in 0..(unit.n - 1) : unit.y[i] = Scale * unit.x[i]

\* C16: ecg_highpass_ma returns y[i] = x[i] - m[i], m being the output of
\* ecg_moving_average on the same x, n and win, win = 0 included.
C16_HighpassIsResidual ==
    unit.f = "highpass" =>
        LET m == ecg_moving_average(unit.x, unit.n, unit.win).wr
        IN  /\ DOMAIN m = 0..(unit.n - 1)
            /\ \A i \in 0..(unit.n - 1) : unit.y[i] = Scale * unit.x[i] - m[i]
            /\ \A i \in unit.n..(MaxFilterLen - 1) : unit.y[i] \in GarbageValues

\* The high-pass filter has run with a window shorter than the input, so
\* that samples have left the window, and with a non-zero output.
C16_Witness ==
    /\ unit.f = "highpass" /\ 2 <= unit.win /\ unit.win < unit.n
    /\ unit.x[0] # Tenth
    /\ unit.y[unit.n - 1] # 0 /\ unit.y[0] = 0

\* C17: ecg_moving_average and ecg_mwi give the same output, element by
\* element, for every x, n and win (win = 0 and win > n included).
C17_SameFilter ==
    /\ unit.f = "mwi" =>
          \A i \in 0..(MaxFilterLen - 1) :
             unit.y[i] = At(ecg_moving_average(unit.x, unit.n, unit.win).wr @@ unit.y, i)
    /\ unit.f = "moving_average" =>
          \A i \in 0..(MaxFilterLen - 1) :
             unit.y[i] = At(ecg_mwi(unit.x, unit.n, unit.win).wr @@ unit.y, i)

\* ecg_mwi has run with a window of 0 on a signal that is not zero.
C17_Witness ==
    /\ unit.f = "mwi" /\ unit.win = 0 /\ unit.n >= 2
    /\ unit.y[0] # 0 /\ unit.y[1] # unit.y[0]

\* x rises by the same positive step from each sample to the next.
Ramp(x, n) == \E step \in 1..3 : \A i \in 1..(n - 1) : x[i] = x[i - 1] + step

\* C18: ecg_derivative_1 returns y[0] = 0 and y[i] = x[i] - x[i-1] for
\* 1 <= i < n; on a ramp of positive step s every y[i], i >= 1, is s.
C18_BackwardDifference ==
    unit.f = "derivative" =>
        /\ unit.y[0] = 0
        /\ \A i \in 1..(unit.n - 1) : unit.y[i] = unit.x[i] - unit.x[i - 1]
        /\ Ramp(unit.x, unit.n) =>
              \A i \in 1..(unit.n - 1) : unit.y[i] = unit.x[1] - unit.x[0] /\ unit.y[i] > 0

\* The derivative of a ramp of three or more samples has been taken.
C18_Witness ==
    /\ unit.f = "derivative" /\ unit.n >= 3 /\ Ramp(unit.x, unit.n)
    /\ unit.y[unit.n - 1] = 1

\* C20: every accepted candidate i of the integrated signal is stored as
\* the index r of a largest raw sample in [i - halfWin, i + halfWin] cut to
\* [0, n_samples - 1], halfWin being half the refractory distance: r lies
\* in the signal, at most halfWin from i, and no sample of the window is
\* larger than signal[r].
C20_RefinedPeak ==
    (pc = "scan" \/ Succeeded) =>
        /\ peaks.R_count = Len(coarse)
        /\ \A k \in 1..Len(coarse) :
              LET i == coarse[k]
                  r == peaks.R[k - 1]
                  halfWin == REFRACTORY_SAMPLES(rate) \div 2
                  lo == Max(0, i - halfWin)
                  hi == IF i + halfWin < args.n_samples - 1 THEN i + halfWin
                        ELSE args.n_samples - 1
              IN  /\ 0 <= r /\ r <= args.n_samples - 1
                  /\ lo <= r /\ r <= hi
                  /\ \A j \in lo..hi : signal[r] >= signal[j]

\* A candidate whose window was cut at the end of the signal has been
\* moved back to an earlier, larger raw sample.
C20_Witness ==
    /\ Succeeded
    /\ \E k \in 1..Len(coarse) :
          /\ coarse[k] + REFRACTORY_SAMPLES(rate) \div 2 > args.n_samples - 1
          /\ peaks.R[k - 1] < coarse[k]
          /\ signal[peaks.R[k - 1]] > signal[coarse[k]]

\* ------------------------------------------------------- the detection loop
\* A turn of the detection loop: the step from one scan state to the next.
ScanTurn == pc = "scan" /\ pc' = "scan"

\* The turn left everything but the loop index as it was.
TurnKeepsState == loc' = [loc EXCEPT !.i = @ + 1] /\ peaks' = peaks /\ coarse' = coarse

\* C23: the loop starts at index 1, every turn is at an index of
\* 1 .. n_samples - 2 and goes on to the next index; a turn whose sample is
\* not above its left neighbour, or is below its right neighbour (so every
\* sample of a plateau but the first), leaves signal_peak, noise_peak,
\* threshold, last_r_index and the stored peaks as they were.
C23_Step ==
    /\ (pc = "init" /\ pc' = "scan") => loc'.i = 1
    /\ ScanTurn =>
          LET mwi == ctx.mwi_buffer
              i == loc.i
          IN  /\ 1 <= i /\ i <= n_samples - 2
              /\ loc'.i = i + 1
              /\ ~(mwi[i] > mwi[i - 1] /\ mwi[i] >= mwi[i + 1]) => TurnKeepsState
              /\ ~TurnKeepsState => mwi[i] > mwi[i - 1] /\ mwi[i] >= mwi[i + 1]

C23_LocalMaxOnly == [][C23_Step]_vars

\* The first sample of a plateau has been accepted and the second one
\* passed over: the loop stands behind both with that one peak as the last.
C23_Witness ==
    /\ pc = "scan"
    /\ loc.i >= 3
    /\ ctx.mwi_buffer[loc.i - 1] = ctx.mwi_buffer[loc.i - 2]
    /\ ctx.mwi_buffer[loc.i - 2] > ctx.mwi_buffer[loc.i - 3]
    /\ Len(coarse) >= 1
    /\ coarse[Len(coarse)] = loc.i - 2
    /\ loc.last_r_index = loc.i - 2

\* 0.875 * a + 0.125 * v and n + 0.25 * (s - n), as exact values.
Blend(a, v) == DAdd(DShr(DMulInt(a, 7), 3), DShr(DInt(v), 3))
Mix(s, n) == DAdd(n, DShr(DSub(s, n), 2))

\* The sample of the turn passes the local-maximum test.
Candidate ==
    /\ ctx.mwi_buffer[loc.i] > ctx.mwi_buffer[loc.i - 1]
    /\ ctx.mwi_buffer[loc.i] >= ctx.mwi_buffer[loc.i + 1]

\* C24: a candidate i is rejected exactly when i - last_r_index is below the
\* refractory distance or mwi[i] is below the threshold (a value equal to
\* the threshold is accepted); a rejection sets noise_peak to
\* 0.875 * noise_peak + 0.125 * mwi[i], the threshold to
\* noise_peak + 0.25 * (signal_peak - noise_peak) with the new noise_peak,
\* and leaves signal_peak, last_r_index and the stored peaks as they were;
\* every other candidate is stored as a peak.
C24_Step ==
    (ScanTurn /\ Candidate) =>
        LET v == ctx.mwi_buffer[loc.i]
            rejected == \/ loc.i - loc.last_r_index < REFRACTORY_SAMPLES(fs)
                        \/ DLess(DInt(v), loc.threshold)
            noise == Blend(loc.noise_peak, v)
        IN  IF rejected
            THEN /\ loc' = [loc EXCEPT !.i = @ + 1,
                                       !.noise_peak = noise,
                                       !.threshold = Mix(loc.signal_peak, noise)]
                 /\ peaks' = peaks
                 /\ coarse' = coarse
            ELSE /\ peaks'.R_count = peaks.R_count + 1
                 /\ coarse' = Append(coarse, loc.i)

C24_Rejection == [][C24_Step]_vars

\* The last turn rejected a candidate inside the refractory distance of the
\* last peak although its value is not below the threshold: the noise peak
\* has moved and the peak count has not.
C24_Witness ==
    /\ pc = "scan"
    /\ Len(coarse) = 1
    /\ peaks.R_count = 1
    /\ loc.i - 1 > loc.last_r_index
    /\ loc.i - 1 - loc.last_r_index < REFRACTORY_SAMPLES(fs)
    /\ ctx.mwi_buffer[loc.i - 1] > ctx.mwi_buffer[loc.i - 2]
    /\ ctx.mwi_buffer[loc.i - 1] >= ctx.mwi_buffer[loc.i]
    /\ ~DLess(DInt(ctx.mwi_buffer[loc.i - 1]), loc.threshold)
    /\ loc.noise_peak # InitNoisePeak(loc.max_mwi)
    /\ loc.threshold = Mix(loc.signal_peak, loc.noise_peak)

\* The candidate of the turn passes both gates.
Accepted ==
    /\ Candidate
    /\ ~(loc.i - loc.last_r_index < REFRACTORY_SAMPLES(fs))
    /\ ~DLess(DInt(ctx.mwi_buffer[loc.i]), loc.threshold)

\* C25: accepting the candidate i appends exactly one entry to the peaks,
\* an index of the raw signal within half the refractory distance of i, and
\* keeps the entries before it; it sets signal_peak to
\* 0.875 * signal_peak + 0.125 * mwi[i], the threshold to
\* noise_peak + 0.25 * (signal_peak - noise_peak) with the new signal_peak,
\* leaves noise_peak as it was and sets last_r_index to i, not to the
\* refined index.
C25_Step ==
    (ScanTurn /\ Accepted) =>
        LET i == loc.i
            halfWin == REFRACTORY_SAMPLES(fs) \div 2
            signal_peak == Blend(loc.signal_peak, ctx.mwi_buffer[i])
        IN  /\ peaks'.R_count = peaks.R_count + 1
            /\ \A k \in 0..(MAX_BEATS - 1) : k # peaks.R_count => peaks'.R[k] = peaks.R[k]
            /\ peaks'.R[peaks.R_count] \in (i - halfWin)..(i + halfWin)
            /\ peaks'.R[peaks.R_count] \in 0..(n_samples - 1)
            /\ loc' = [loc EXCEPT !.i = i + 1,
                                  !.signal_peak = signal_peak,
                                  !.threshold = Mix(signal_peak, loc.noise_peak),
                                  !.last_r_index = i]

C25_Acceptance == [][C25_Step]_vars

\* The last turn accepted a second candidate and stored it under another
\* index than its own: last_r_index is the candidate, not the stored entry.
C25_Witness ==
    /\ pc = "scan"
    /\ Len(coarse) = 2
    /\ peaks.R_count = 2
    /\ coarse[2] = loc.i - 1
    /\ peaks.R[1] # coarse[2]
    /\ loc.last_r_index = coarse[2]
    /\ loc.signal_peak # InitSignalPeak(loc.max_mwi)
    /\ loc.threshold = Mix(loc.signal_peak, loc.noise_peak)

\* The largest of mwi[0 .. n_samples - 1] of the current call (0 when the
\* call has no sample).
LargestMwi ==
    LET vals == {0} \cup {ctx.mwi_buffer[k] : k \in 0..(n_samples - 1)}
    IN  CHOOSE v \in vals : \A u \in vals : u <= v

\* C26: when the scan of a call starts, signal_peak is 0.25 and noise_peak
\* 0.125 of the largest integrated sample of this call, the threshold is
\* noise_peak + 0.25 * (signal_peak - noise_peak), R_count is 0 and
\* last_r_index is minus the refractory distance, whatever an earlier call
\* on the context left behind; until a peak is accepted last_r_index stays
\* there, so that no index of the loop is inside the refractory distance.
C26_ScanStart ==
    pc = "scan" =>
        /\ loc.i = 1 =>
              /\ loc.signal_peak = DShr(DInt(LargestMwi), 2)
              /\ loc.noise_peak = DShr(DInt(LargestMwi), 3)
              /\ loc.threshold = Mix(loc.signal_peak, loc.noise_peak)
              /\ peaks.R_count = 0
              /\ loc.last_r_index = 0 - REFRACTORY_SAMPLES(fs)
        /\ peaks.R_count = 0 =>
              /\ loc.last_r_index = 0 - REFRACTORY_SAMPLES(fs)
              /\ ~(loc.i - loc.last_r_index < REFRACTORY_SAMPLES(fs))

\* The scan of a third call on the context starts: the buffer holds larger
\* integrated samples of an earlier call behind those of this one, the
\* caller's peaks held a count, and index 1 is a candidate.
C26_Witness ==
    /\ pc = "scan" /\ calls = 3 /\ loc.i = 1
    /\ LargestMwi > 0
    /\ \E k \in n_samples..(MAX_SAMPLES - 1) : ctx.mwi_buffer[k] > LargestMwi
    /\ old.peaks.R_count > 0
    /\ REFRACTORY_SAMPLES(fs) > 1
    /\ n_samples > 2
    /\ Candidate

\* C27: the stored peak indices never decrease, R[k] <= R[k + 1]; two
\* consecutive entries are equal only when their candidates are exactly
\* the refractory distance apart and that distance is even.
C27_PeaksOrdered ==
    (pc = "scan" \/ Succeeded) =>
        /\ peaks.R_count = Len(coarse)
        /\ \A k \in 1..(Len(coarse) - 1) :
              /\ peaks.R[k - 1] <= peaks.R[k]
              /\ peaks.R[k - 1] = peaks.R[k] =>
                    /\ coarse[k + 1] - coarse[k] = REFRACTORY_SAMPLES(rate)
                    /\ REFRACTORY_SAMPLES(rate) % 2 = 0

\* A call has stored the same index twice: for two candidates at the
\* refractory distance, each refined to the sample half-way between them.
C27_Witness ==
    /\ Succeeded
    /\ \E k \in 1..(Len(coarse) - 1) :
          /\ peaks.R[k - 1] = peaks.R[k]
          /\ coarse[k + 1] - coarse[k] = REFRACTORY_SAMPLES(rate)
          /\ peaks.R[k] # coarse[k] /\ peaks.R[k] # coarse[k + 1]

\* C28: the integrated signal is never negative: ecg_mwi, which ecg_analyze
\* runs on the squared samples, writes a mean >= 0 at every index when no
\* sample of its input is negative.
C28_MwiNotNegative ==
    (unit.f = "mwi" /\ \A i \in 0..(unit.n - 1) : unit.x[i] >= 0) =>
        \A i \in 0..(unit.n - 1) : unit.y[i] >= 0

\* The step of the running caller: no change of callers.
OwnStep == other'.id = other.id

\* C21: two calls of ecg_analyze on different contexts and output
\* structures, on the same sample buffer or not, interleaved in any order:
\* a step of a call never writes the sample buffer and leaves the other
\* caller's context, peaks and intervals as they are, and each call
\* returns the peaks and the intervals the same call returned when it ran
\* with no other call in progress.
C21_Alone ==
    (Succeeded /\ calls = 2) =>
        LET again == Result(args, signal, peaks, intervals)
        IN  again.R = first.R /\ again.RR = first.RR

C21_Step ==
    OwnStep =>
        /\ other' = other
        /\ pc # "idle" => signal' = signal

C21_Interleaved == [](C21_Alone) /\ [][C21_Step]_vars

\* A caller has finished its second call with two beats or more while the
\* other caller, on the same samples and at another sampling rate, stands
\* inside the scan of its second call with a peak accepted.
C21_Witness ==
    /\ Succeeded /\ calls = 2 /\ peaks.R_count >= 2 /\ intervals.count >= 1
    /\ other.calls = 2 /\ other.pc = "scan" /\ Len(other.coarse) >= 1
    /\ other.signal = signal
    /\ other.ctx.params # ctx.params
    /\ other.ctx.mwi_buffer # ctx.mwi_buffer

====
